---------------------------- MODULE Spec2Model ----------------------------
(***************************************************************************)
(* Model of pymongo/auth.py: the credential builder, the five mechanism    *)
(* authenticators and the dispatcher `authenticate`.                       *)
(*                                                                         *)
(* One behaviour is one call of _build_credentials_tuple followed by one   *)
(* call of authenticate(credentials, sock_info, cmd_func).  The two        *)
(* collaborators the code only consumes are the environment:               *)
(*   - cmd_func (the command channel): every exchange either returns a     *)
(*     reply document or raises an error of the channel;                   *)
(*   - the kerberos module (the security engine): every call either        *)
(*     returns one of the values the code distinguishes or raises          *)
(*     kerberos.KrbError.                                                  *)
(* Every call the authenticator makes to a collaborator is one step, so    *)
(* that a run can stop at any of them.  `trace` records the calls made, in *)
(* order, with what they were given and what they answered.                *)
(***************************************************************************)
EXTENDS Integers, Sequences, FiniteSets, TLC

VARIABLES
    pc,             \* position of the run in the code
    args,           \* the arguments of the _build_credentials_tuple call
    HAVE_KERBEROS,  \* module flag set at import time (lines 21-25)
    credentials,    \* the MongoCredential tuple
    ctx,            \* local `ctx`: the handle of the run's security context
    contexts,       \* the kerberos module's contexts, by handle
    parked,         \* the locals of the run on the other connection
    result,         \* local `result` of _authenticate_gssapi
    payload,        \* local `payload` of _authenticate_gssapi
    response,       \* local `response`: the last reply document
    iter,           \* number of completed iterations of the negotiate loop
    exc,            \* the exception in flight inside the try block, if any
    idChanges,      \* times the server changed the conversation id it sends
    outcome,        \* what authenticate did: returned, or the error raised
    trace           \* the collaborator calls made so far

vars == <<pc, args, HAVE_KERBEROS, credentials, ctx, contexts, parked,
          result, payload, response, iter, exc, idChanges, outcome, trace>>

---------------------------------------------------------------------------
(* Values *)

\* Python's None, as a value of the string-typed fields.
None == "<None>"

\* isinstance(x, string_type)
IsString(x) == x # None

\* "%s" % x
Str(x) == IF x = None THEN "None" ELSE x

\* An optional dictionary: <<>> is None, <<d>> is the dictionary d.
NoDict == <<>>
Some(d) == <<d>>

EmptyDict == [k \in {} |-> ""]

\* dict.get(key, default)
DictGet(d, key, default) == IF key \in DOMAIN d THEN d[key] ELSE default

\* The kerberos module's return values (comment at lines 99-102).
AUTH_GSS_COMPLETE == 1
AUTH_GSS_CONTINUE == 0
AUTH_GSS_ERROR == -1

\* An exception: its type and its message.
Exception(type, msg) == [type |-> type, msg |-> msg]
NoExc == Exception("none", "")
Returned == Exception("returned", "")

OperationFailure(msg) == Exception("OperationFailure", msg)
ConfigurationError(msg) == Exception("ConfigurationError", msg)
\* kerberos.KrbError raised by the engine call `op`.
KrbError(op) == Exception("KrbError", op)

---------------------------------------------------------------------------
(* Inputs *)

\* MECHANISMS (line 36) has four names, _AUTH_MAP (lines 232-238) five.
\* The builder takes any string: one name outside both is enumerated.
MechanismNames ==
    {"GSSAPI", "MONGODB-CR", "MONGODB-X509", "PLAIN", "CRAM-MD5", "SCRAM-SHA-1"}
Sources == {"admin", "$external"}
Usernames == {"user"}
Passwords == {"pencil", "", None}
Extras == {EmptyDict, [k \in {"gssapiservicename"} |-> "svc"]}

BuilderArgs ==
    [mech : MechanismNames, source : Sources, user : Usernames,
     passwd : Passwords, extra : Extras]

\* The builder has returned and its caller has handed the credentials on:
\* authenticate and the authenticators see the credentials only.
NoArgs ==
    [mech |-> None, source |-> None, user |-> None, passwd |-> None,
     extra |-> EmptyDict]

\* The conversation ids the server may put in a reply.
ConvIds == {1, 2}

\* How many times in one run the server may answer with a conversation id
\* other than the one of its previous reply.
MaxIdChanges == 1

\* The reply document of the command channel with conversation id c: each
\* reply document has its own payload (server token, challenge) and nonce.
ReplyDocument(c) ==
    [payload |-> IF c = 1 THEN "<1896.6969@mail>" ELSE "<2008.7070@mail>",
     conversationId |-> c,
     nonce |-> IF c = 1 THEN "abc123" ELSE "def456"]

\* Reply documents of the command channel.
Replies == {ReplyDocument(c) : c \in ConvIds}

\* Errors of the command channel: the server's refusal, a transport error.
ChannelErrors ==
    {Exception("OperationFailure", "command failed"),
     Exception("AutoReconnect", "connection closed")}

\* What kerberos.authGSSClientResponse may return.
Tokens == {"tok"}

---------------------------------------------------------------------------
(* Credential Builder *)

MongoCredential(mechanism, source, username, password, mechanism_properties) ==
    [mechanism |-> mechanism, source |-> source, username |-> username,
     password |-> password, mechanism_properties |-> mechanism_properties]

\* Mutant of _build_credentials_tuple: the MONGODB-X509 branch is missing
\* and the GSSAPI branch ignores gssapiservicename.
_build_credentials_tuple_unnormalized(mech, source, user, passwd, extra) ==
    IF mech = "GSSAPI"
    THEN MongoCredential(mech, "$external", user, None,
                         Some([service_name |-> "mongodb"]))
    ELSE MongoCredential(mech, source, user, passwd, NoDict)

_build_credentials_tuple(mech, source, user, passwd, extra) ==
    IF mech = "GSSAPI"
    THEN LET props == [service_name |->
                          DictGet(extra, "gssapiservicename", "mongodb")]
         IN  MongoCredential(mech, "$external", user, None, Some(props))
    ELSE IF mech = "MONGODB-X509"
    THEN MongoCredential(mech, "$external", user, None, NoDict)
    ELSE MongoCredential(mech, source, user, passwd, NoDict)

\* The credentials before the builder has run (no tuple exists yet).
NoCredential == MongoCredential(None, None, None, None, NoDict)

---------------------------------------------------------------------------
(* The trace of collaborator calls *)

\* The value of the local `ctx` before line 92 binds it.
NoContext == 0

\* The calls of the kerberos module.
EngineOps ==
    {"authGSSClientInit", "authGSSClientStep", "authGSSClientResponse",
     "authGSSClientUnwrap", "authGSSClientWrap", "authGSSClientClean"}

\* The locals of a run that has not started: the caller holds the
\* credentials and is about to call authenticate.
NotStarted ==
    [pc |-> "authenticate", ctx |-> NoContext, result |-> AUTH_GSS_CONTINUE,
     payload |-> None,
     response |-> [payload |-> "", conversationId |-> 0, nonce |-> ""],
     iter |-> 0, exc |-> NoExc, idChanges |-> 0, outcome |-> NoExc,
     trace |-> <<>>]

\* One call: the function called, its input, whether it raised, its answer.
Event(op, arg, raised, res) ==
    [op |-> op, arg |-> arg, raised |-> raised, res |-> res,
     ctx |-> IF op \in EngineOps THEN ctx ELSE NoContext]

\* cmd_func(sock_info, db, cmd)
CmdArg(db, cmd) == [db |-> db, cmd |-> cmd]

\* The reply documents the server may send next.
NextReplies ==
    {r \in Replies :
        \/ response.conversationId = 0
        \/ r.conversationId = response.conversationId
        \/ idChanges < MaxIdChanges}

\* response, _ = cmd_func(sock_info, db, cmd), returning `reply`.
CmdReturns(db, cmd, reply) ==
    /\ trace' = Append(trace, Event("cmd_func", CmdArg(db, cmd), FALSE, reply))
    /\ response' = reply
    /\ idChanges' =
         IF response.conversationId \notin {0, reply.conversationId}
         THEN idChanges + 1 ELSE idChanges

\* cmd_func(sock_info, db, cmd) raising the channel error e.
CmdRaises(db, cmd, e) ==
    /\ trace' = Append(trace, Event("cmd_func", CmdArg(db, cmd), TRUE, e))
    /\ UNCHANGED <<response, idChanges>>

Init ==
    /\ pc = "build"
    /\ args \in BuilderArgs
    /\ HAVE_KERBEROS \in BOOLEAN
    /\ credentials = NoCredential
    /\ ctx = NotStarted.ctx
    /\ contexts = <<>>
    /\ parked = NotStarted
    /\ result = NotStarted.result
    /\ payload = NotStarted.payload
    /\ response = NotStarted.response
    /\ iter = NotStarted.iter
    /\ exc = NotStarted.exc
    /\ idChanges = NotStarted.idChanges
    /\ outcome = NotStarted.outcome
    /\ trace = NotStarted.trace

Build ==
    /\ pc = "build"
    /\ credentials' = _build_credentials_tuple(
                          args.mech, args.source, args.user, args.passwd,
                          args.extra)
    /\ pc' = "authenticate"
    /\ UNCHANGED <<parked, args, HAVE_KERBEROS, ctx, contexts, result,
                   payload, response, iter, exc, outcome, trace, idChanges>>

---------------------------------------------------------------------------
(* Digest Engine *)

\* md5(data).hexdigest(): a digest is known only by what it was computed from.
MD5(data) == <<"md5", data>>

\* hmac.HMAC(key, digestmod=md5) updated with msg, .hexdigest()
HMAC_MD5(key, msg) == <<"hmac-md5", key, msg>>

\* Binary(data)
Binary(data) == <<"Binary", data>>

\* Mutant of _password_digest_error: the test for the empty password is
\* missing.
_password_digest_error_allows_empty(username, password) ==
    IF ~IsString(password)
    THEN Exception("TypeError", "password must be an instance of basestring")
    ELSE IF ~IsString(username)
    THEN Exception("TypeError", "password must be an instance of  basestring")
    ELSE NoExc

\* The exception _password_digest raises on its arguments, NoExc if none
\* (lines 59-66).
_password_digest_error(username, password) ==
    IF ~IsString(password)
    THEN Exception("TypeError", "password must be an instance of basestring")
    ELSE IF Len(password) = 0
    THEN Exception("ValueError", "password can't be empty")
    ELSE IF ~IsString(username)
    THEN Exception("TypeError", "password must be an instance of  basestring")
    ELSE NoExc

\* Mutant of _password_digest: the digest of the bare password.
_password_digest_unsalted(username, password) == MD5(password)

\* Lines 68-71, for arguments that pass the checks.
_password_digest(username, password) ==
    MD5(username \o ":mongo:" \o password)

\* Mutant of _auth_key: the nonce is left out of the key.
_auth_key_without_nonce(nonce, username, password) ==
    MD5(<<username, _password_digest(username, password)>>)

\* Lines 77-81.
_auth_key(nonce, username, password) ==
    MD5(<<nonce, username, _password_digest(username, password)>>)

---------------------------------------------------------------------------
(* Dispatcher *)

\* The run ends: authenticate returns, or raises e to its caller.
Finish(e) ==
    /\ pc' = "done"
    /\ outcome' = e

_AUTH_MAP ==
    [m \in {"CRAM-MD5", "GSSAPI", "MONGODB-CR", "MONGODB-X509", "PLAIN"} |->
        CASE m = "CRAM-MD5" -> "_authenticate_cram_md5"
          [] m = "GSSAPI" -> "_authenticate_gssapi"
          [] m = "MONGODB-CR" -> "_authenticate_mongo_cr"
          [] m = "MONGODB-X509" -> "_authenticate_x509"
          [] m = "PLAIN" -> "_authenticate_plain"]

\* auth_func(...) with auth_func = None, the answer of _AUTH_MAP.get for a
\* mechanism that is not a key (lines 249-250).
NoneNotCallable == Exception("TypeError", "'NoneType' object is not callable")

\* Mutant of authenticate: the capability test of lines 245-248 is missing.
authenticate_without_capability_test ==
    /\ pc = "authenticate"
    /\ LET auth_func == DictGet(_AUTH_MAP, credentials.mechanism, None)
       IN  IF auth_func = None
           THEN Finish(NoneNotCallable)
           ELSE pc' = auth_func /\ UNCHANGED outcome
    /\ args' = NoArgs
    /\ UNCHANGED <<parked, HAVE_KERBEROS, credentials, ctx, contexts, result,
                   payload, response, iter, exc, trace, idChanges>>

\* authenticate(credentials, sock_info, cmd_func), up to the call of the
\* authenticator it selected.  Calling None raises TypeError.
authenticate ==
    /\ pc = "authenticate"
    /\ LET mechanism == credentials.mechanism
           auth_func == DictGet(_AUTH_MAP, mechanism, None)
       IN  IF mechanism = "GSSAPI" /\ ~HAVE_KERBEROS
           THEN Finish(ConfigurationError(
                    "The kerberos module must be installed"))
           ELSE IF auth_func = None
           THEN Finish(NoneNotCallable)
           ELSE pc' = auth_func /\ UNCHANGED outcome
    /\ args' = NoArgs
    /\ UNCHANGED <<parked, HAVE_KERBEROS, credentials, ctx, contexts, result,
                   payload, response, iter, exc, trace, idChanges>>

---------------------------------------------------------------------------
(* GSSAPI authenticator *)

\* range(10), line 119
LoopBound == 10

sock_info_host == "db.example.com"

\* Mutant of TranslateKrbError: the except clause is missing.
TranslateKrbError_missing(e) == e

\* except kerberos.KrbError as exc: raise OperationFailure(str(exc))
TranslateKrbError(e) ==
    IF e.type = "KrbError" THEN OperationFailure(e.msg) ELSE e

\* An exception raised inside the inner try block: the finally clause runs
\* next, with the exception in flight.
RaiseInTry(e) ==
    /\ pc' = "gss_finally"
    /\ exc' = e

\* An engine call `op` on input `arg` that raises kerberos.KrbError.
EngineRaises(op, arg) ==
    /\ trace' = Append(trace, Event(op, arg, TRUE, KrbError(op)))
    /\ RaiseInTry(KrbError(op))

\* cmd_func(sock_info, '$external', cmd) raising an error of the channel.
GssCmdRaises(cmd) ==
    \E e \in ChannelErrors :
        /\ CmdRaises("$external", cmd, e)
        /\ RaiseInTry(e)

\* Lines 88-96: authGSSClientInit and the test of its result.  Only
\* authGSSClientStep can return 0 (line 102).
gss_init ==
    /\ pc = "_authenticate_gssapi"
    /\ LET gsn == credentials.mechanism_properties[1].service_name
           target == gsn \o "@" \o sock_info_host
       IN  \/ /\ trace' = Append(trace,
                     Event("authGSSClientInit", target, TRUE,
                           KrbError("authGSSClientInit")))
              /\ Finish(TranslateKrbError(KrbError("authGSSClientInit")))
              /\ UNCHANGED <<ctx, contexts, result>>
           \/ \E r \in {AUTH_GSS_COMPLETE, AUTH_GSS_ERROR} :
                /\ trace' = Append(trace,
                       [Event("authGSSClientInit", target, FALSE, r)
                           EXCEPT !.ctx = Len(contexts) + 1])
                /\ contexts' = Append(contexts, "live")
                /\ ctx' = Len(contexts) + 1
                /\ result' = r
                /\ IF r # AUTH_GSS_COMPLETE
                   THEN Finish(TranslateKrbError(OperationFailure(
                            "Kerberos context failed to initialize.")))
                   ELSE pc' = "gss_first_step" /\ UNCHANGED outcome
    /\ UNCHANGED <<parked, args, HAVE_KERBEROS, credentials, payload,
                   response, iter, exc, idChanges>>

\* Mutant of gss_first_step: only the error return is refused (!= 0 written
\* as == -1).
gss_first_step_lenient ==
    /\ pc = "gss_first_step"
    /\ \/ EngineRaises("authGSSClientStep", "")
       \/ \E r \in {AUTH_GSS_CONTINUE, AUTH_GSS_COMPLETE, AUTH_GSS_ERROR} :
            /\ trace' = Append(trace,
                   Event("authGSSClientStep", "", FALSE, r))
            /\ IF r = -1
               THEN RaiseInTry(OperationFailure(
                        "Unknown kerberos failure in step function."))
               ELSE pc' = "gss_start_response" /\ UNCHANGED exc
    /\ UNCHANGED <<parked, args, HAVE_KERBEROS, credentials, ctx, contexts,
                   result, payload, response, iter, outcome, idChanges>>

\* Lines 103-105: the first step, on the empty input.
gss_first_step ==
    /\ pc = "gss_first_step"
    /\ \/ EngineRaises("authGSSClientStep", "")
       \/ \E r \in {AUTH_GSS_CONTINUE, AUTH_GSS_COMPLETE, AUTH_GSS_ERROR} :
            /\ trace' = Append(trace,
                   Event("authGSSClientStep", "", FALSE, r))
            /\ IF r # 0
               THEN RaiseInTry(OperationFailure(
                        "Unknown kerberos failure in step function."))
               ELSE pc' = "gss_start_response" /\ UNCHANGED exc
    /\ UNCHANGED <<parked, args, HAVE_KERBEROS, credentials, ctx, contexts,
                   result, payload, response, iter, outcome, idChanges>>

\* Line 111: payload = kerberos.authGSSClientResponse(ctx)
gss_start_response ==
    /\ pc = "gss_start_response"
    /\ \/ EngineRaises("authGSSClientResponse", "") /\ UNCHANGED payload
       \/ \E t \in Tokens :
            /\ trace' = Append(trace,
                   Event("authGSSClientResponse", "", FALSE, t))
            /\ payload' = t
            /\ pc' = "gss_start"
            /\ UNCHANGED exc
    /\ UNCHANGED <<parked, args, HAVE_KERBEROS, credentials, ctx, contexts,
                   result, response, iter, outcome, idChanges>>

\* Lines 112-116: saslStart.
gss_start ==
    /\ pc = "gss_start"
    /\ LET cmd == [saslStart |-> 1, mechanism |-> "GSSAPI",
                   payload |-> payload, autoAuthorize |-> 1]
       IN  \/ GssCmdRaises(cmd)
           \/ \E reply \in NextReplies :
                /\ CmdReturns("$external", cmd, reply)
                /\ pc' = "gss_loop_step"
                /\ UNCHANGED exc
    /\ UNCHANGED <<parked, args, HAVE_KERBEROS, credentials, ctx, contexts,
                   result, payload, iter, outcome>>

\* Lines 120-124: the step of one loop iteration, on the last reply's payload.
gss_loop_step ==
    /\ pc = "gss_loop_step"
    /\ LET input == Str(response.payload)
       IN  \/ EngineRaises("authGSSClientStep", input) /\ UNCHANGED result
           \/ \E r \in {AUTH_GSS_CONTINUE, AUTH_GSS_COMPLETE, AUTH_GSS_ERROR} :
                /\ trace' = Append(trace,
                       Event("authGSSClientStep", input, FALSE, r))
                /\ result' = r
                /\ IF r = -1
                   THEN RaiseInTry(OperationFailure(
                            "Unknown kerberos failure in step function."))
                   ELSE pc' = "gss_loop_response" /\ UNCHANGED exc
    /\ UNCHANGED <<parked, args, HAVE_KERBEROS, credentials, ctx, contexts,
                   payload, response, iter, outcome, idChanges>>

\* Line 126: payload = kerberos.authGSSClientResponse(ctx) or ''.  The engine
\* has no token left to send once the context is complete.
gss_loop_response ==
    /\ pc = "gss_loop_response"
    /\ \/ EngineRaises("authGSSClientResponse", "") /\ UNCHANGED payload
       \/ \E t \in Tokens \cup
                   (IF result = AUTH_GSS_COMPLETE THEN {None} ELSE {}) :
            /\ trace' = Append(trace,
                   Event("authGSSClientResponse", "", FALSE, t))
            /\ payload' = (IF t = None THEN "" ELSE t)
            /\ pc' = "gss_loop_cmd"
            /\ UNCHANGED exc
    /\ UNCHANGED <<parked, args, HAVE_KERBEROS, credentials, ctx, contexts,
                   result, response, iter, outcome, idChanges>>

\* Mutant of LoopContinues: a loop with no bound (while True).
LoopContinues_unbounded(n) == TRUE

\* Mutant of LoopContinues: one iteration too many (range(11)).
LoopContinues_one_more(n) == n <= LoopBound

\* for _ in range(10): after n iterations that did not break, another one
\* starts if n is below the bound; otherwise the else clause runs.
LoopContinues(n) == n < LoopBound

\* Mutant of LoopBreaks: the break is missing.
LoopBreaks_never(r) == FALSE

\* if result == kerberos.AUTH_GSS_COMPLETE: break   (lines 133-134)
LoopBreaks(r) == r = AUTH_GSS_COMPLETE

\* Lines 128-137: saslContinue, then the break, the next iteration or the
\* else clause of the for loop.
gss_loop_cmd ==
    /\ pc = "gss_loop_cmd"
    /\ LET cmd == [saslContinue |-> 1,
                   conversationId |-> response.conversationId,
                   payload |-> payload]
       IN  \/ GssCmdRaises(cmd) /\ UNCHANGED iter
           \/ \E reply \in NextReplies :
                /\ CmdReturns("$external", cmd, reply)
                /\ iter' = iter + 1
                /\ IF LoopBreaks(result)
                   THEN pc' = "gss_unwrap" /\ UNCHANGED exc
                   ELSE IF LoopContinues(iter + 1)
                   THEN pc' = "gss_loop_step" /\ UNCHANGED exc
                   ELSE RaiseInTry(OperationFailure(
                            "Kerberos authentication failed to complete."))
    /\ UNCHANGED <<parked, args, HAVE_KERBEROS, credentials, ctx, contexts,
                   result, payload, outcome>>

\* Mutant of gss_unwrap: the result of the unwrap call is not tested.
gss_unwrap_unchecked ==
    /\ pc = "gss_unwrap"
    /\ LET input == Str(response.payload)
       IN  \/ EngineRaises("authGSSClientUnwrap", input)
           \/ \E r \in {AUTH_GSS_COMPLETE, AUTH_GSS_ERROR} :
                /\ trace' = Append(trace,
                       Event("authGSSClientUnwrap", input, FALSE, r))
                /\ pc' = "gss_wrap_response"
                /\ UNCHANGED exc
    /\ UNCHANGED <<parked, args, HAVE_KERBEROS, credentials, ctx, contexts,
                   result, payload, response, iter, outcome, idChanges>>

\* Lines 141-144: unwrap of the last reply's payload.
gss_unwrap ==
    /\ pc = "gss_unwrap"
    /\ LET input == Str(response.payload)
       IN  \/ EngineRaises("authGSSClientUnwrap", input)
           \/ \E r \in {AUTH_GSS_COMPLETE, AUTH_GSS_ERROR} :
                /\ trace' = Append(trace,
                       Event("authGSSClientUnwrap", input, FALSE, r))
                /\ IF r # 1
                   THEN RaiseInTry(OperationFailure(
                            "Unknown kerberos failure during GSS_Unwrap step."))
                   ELSE pc' = "gss_wrap_response" /\ UNCHANGED exc
    /\ UNCHANGED <<parked, args, HAVE_KERBEROS, credentials, ctx, contexts,
                   result, payload, response, iter, outcome, idChanges>>

\* Line 147: the unwrapped data, argument of the wrap call.  `payload` holds
\* it until the wrap call (the code passes it on directly).
gss_wrap_response ==
    /\ pc = "gss_wrap_response"
    /\ \/ EngineRaises("authGSSClientResponse", "") /\ UNCHANGED payload
       \/ \E t \in Tokens :
            /\ trace' = Append(trace,
                   Event("authGSSClientResponse", "", FALSE, t))
            /\ payload' = t
            /\ pc' = "gss_wrap"
            /\ UNCHANGED exc
    /\ UNCHANGED <<parked, args, HAVE_KERBEROS, credentials, ctx, contexts,
                   result, response, iter, outcome, idChanges>>

\* Lines 146-150: wrap of the username.
gss_wrap ==
    /\ pc = "gss_wrap"
    /\ LET input == <<payload, credentials.username>>
       IN  \/ EngineRaises("authGSSClientWrap", input)
           \/ \E r \in {AUTH_GSS_COMPLETE, AUTH_GSS_ERROR} :
                /\ trace' = Append(trace,
                       Event("authGSSClientWrap", input, FALSE, r))
                /\ IF r # 1
                   THEN RaiseInTry(OperationFailure(
                            "Unknown kerberos failure during GSS_Wrap step."))
                   ELSE pc' = "gss_final_response" /\ UNCHANGED exc
    /\ UNCHANGED <<parked, args, HAVE_KERBEROS, credentials, ctx, contexts,
                   result, payload, response, iter, outcome, idChanges>>

\* Line 152: payload = kerberos.authGSSClientResponse(ctx)
gss_final_response ==
    /\ pc = "gss_final_response"
    /\ \/ EngineRaises("authGSSClientResponse", "") /\ UNCHANGED payload
       \/ \E t \in Tokens :
            /\ trace' = Append(trace,
                   Event("authGSSClientResponse", "", FALSE, t))
            /\ payload' = t
            /\ pc' = "gss_final_cmd"
            /\ UNCHANGED exc
    /\ UNCHANGED <<parked, args, HAVE_KERBEROS, credentials, ctx, contexts,
                   result, response, iter, outcome, idChanges>>

\* Lines 153-156: the last saslContinue; the try block ends and the finally
\* clause runs with no exception in flight.
gss_final_cmd ==
    /\ pc = "gss_final_cmd"
    /\ LET cmd == [saslContinue |-> 1,
                   conversationId |-> response.conversationId,
                   payload |-> payload]
       IN  \/ GssCmdRaises(cmd)
           \/ \E reply \in NextReplies :
                /\ CmdReturns("$external", cmd, reply)
                /\ pc' = "gss_finally"
                /\ UNCHANGED exc
    /\ UNCHANGED <<parked, args, HAVE_KERBEROS, credentials, ctx, contexts,
                   result, payload, iter, outcome>>

\* Mutant of gss_finally: the context is cleaned in an except handler and
\* again in the finally clause.
gss_finally_twice ==
    /\ pc = "gss_finally"
    /\ contexts' = [contexts EXCEPT ![ctx] = "cleaned"]
    /\ trace' = Append(trace,
           Event("authGSSClientClean", "", FALSE, AUTH_GSS_COMPLETE))
    /\ IF contexts[ctx] = "cleaned"
       THEN Finish(IF exc = NoExc THEN Returned ELSE TranslateKrbError(exc))
       ELSE UNCHANGED <<pc, outcome>>
    /\ UNCHANGED <<parked, args, HAVE_KERBEROS, credentials, ctx, result,
                   payload, response, iter, exc, idChanges>>

\* Lines 158-162: finally: kerberos.authGSSClientClean(ctx), then the except
\* clause of the outer try.  An exception raised by the finally clause
\* replaces the one in flight.
gss_finally ==
    /\ pc = "gss_finally"
    /\ contexts' = [contexts EXCEPT ![ctx] = "cleaned"]
    /\ \/ /\ trace' = Append(trace,
                 Event("authGSSClientClean", "", TRUE,
                       KrbError("authGSSClientClean")))
          /\ Finish(TranslateKrbError(KrbError("authGSSClientClean")))
       \/ /\ trace' = Append(trace,
                 Event("authGSSClientClean", "", FALSE, AUTH_GSS_COMPLETE))
          /\ Finish(IF exc = NoExc THEN Returned ELSE TranslateKrbError(exc))
    /\ UNCHANGED <<parked, args, HAVE_KERBEROS, credentials, ctx, result,
                   payload, response, iter, exc, idChanges>>

_authenticate_gssapi ==
    \/ gss_init
    \/ gss_first_step
    \/ gss_start_response
    \/ gss_start
    \/ gss_loop_step
    \/ gss_loop_response
    \/ gss_loop_cmd
    \/ gss_unwrap
    \/ gss_wrap_response
    \/ gss_wrap
    \/ gss_final_response
    \/ gss_final_cmd
    \/ gss_finally

---------------------------------------------------------------------------
(* The authenticators without a security context: an error raised by        *)
(* cmd_func or by the digest engine leaves the function as it is.           *)

\* '\x00'
NUL == "\\x00"

\* Mutant of _authenticate_plain: the password is wiped from the credentials
\* once it has been sent.
_authenticate_plain_wiping_password ==
    /\ pc = "_authenticate_plain"
    /\ LET source == credentials.source
           username == credentials.username
           password == credentials.password
           data == NUL \o Str(username) \o NUL \o Str(password)
           cmd == [saslStart |-> 1, mechanism |-> "PLAIN",
                   payload |-> Binary(data), autoAuthorize |-> 1]
       IN  \/ \E e \in ChannelErrors :
                CmdRaises(source, cmd, e) /\ Finish(e)
           \/ \E reply \in NextReplies :
                CmdReturns(source, cmd, reply) /\ Finish(Returned)
    /\ credentials' = [credentials EXCEPT !.password = ""]
    /\ UNCHANGED <<parked, args, HAVE_KERBEROS, ctx, contexts, result,
                   payload, iter, exc>>

\* Lines 168-176.
_authenticate_plain ==
    /\ pc = "_authenticate_plain"
    /\ LET source == credentials.source
           username == credentials.username
           password == credentials.password
           data == NUL \o Str(username) \o NUL \o Str(password)
           cmd == [saslStart |-> 1, mechanism |-> "PLAIN",
                   payload |-> Binary(data), autoAuthorize |-> 1]
       IN  \/ \E e \in ChannelErrors :
                CmdRaises(source, cmd, e) /\ Finish(e)
           \/ \E reply \in NextReplies :
                CmdReturns(source, cmd, reply) /\ Finish(Returned)
    /\ UNCHANGED <<parked, args, HAVE_KERBEROS, credentials, ctx, contexts,
                   result, payload, iter, exc>>

\* Lines 182-192: the digest of the password, then saslStart.
cram_md5_start ==
    /\ pc = "_authenticate_cram_md5"
    /\ LET source == credentials.source
           username == credentials.username
           password == credentials.password
           invalid == _password_digest_error(username, password)
           cmd == [saslStart |-> 1, mechanism |-> "CRAM-MD5",
                   payload |-> Binary(""), autoAuthorize |-> 1]
       IN  IF invalid # NoExc
           THEN Finish(invalid) /\ UNCHANGED <<trace, response, idChanges>>
           ELSE \/ \E e \in ChannelErrors :
                     CmdRaises(source, cmd, e) /\ Finish(e)
                \/ \E reply \in NextReplies :
                     /\ CmdReturns(source, cmd, reply)
                     /\ pc' = "cram_md5_continue"
                     /\ UNCHANGED outcome
    /\ UNCHANGED <<parked, args, HAVE_KERBEROS, credentials, ctx, contexts,
                   result, payload, iter, exc>>

\* Lines 195-201: the keyed digest of the challenge, then saslContinue.
cram_md5_continue ==
    /\ pc = "cram_md5_continue"
    /\ LET source == credentials.source
           username == credentials.username
           password == credentials.password
           passwd == _password_digest(username, password)
           mac == HMAC_MD5(passwd, response.payload)
           challenge == <<username, " ", mac>>
           cmd == [saslContinue |-> 1,
                   conversationId |-> response.conversationId,
                   payload |-> Binary(challenge)]
       IN  \/ \E e \in ChannelErrors :
                CmdRaises(source, cmd, e) /\ Finish(e)
           \/ \E reply \in NextReplies :
                CmdReturns(source, cmd, reply) /\ Finish(Returned)
    /\ UNCHANGED <<parked, args, HAVE_KERBEROS, credentials, ctx, contexts,
                   result, payload, iter, exc>>

_authenticate_cram_md5 ==
    \/ cram_md5_start
    \/ cram_md5_continue

\* Lines 207-210.
_authenticate_x509 ==
    /\ pc = "_authenticate_x509"
    /\ LET query == [authenticate |-> 1, mechanism |-> "MONGODB-X509",
                     user |-> credentials.username]
       IN  \/ \E e \in ChannelErrors :
                CmdRaises("$external", query, e) /\ Finish(e)
           \/ \E reply \in NextReplies :
                CmdReturns("$external", query, reply) /\ Finish(Returned)
    /\ UNCHANGED <<parked, args, HAVE_KERBEROS, credentials, ctx, contexts,
                   result, payload, iter, exc>>

\* Lines 216-220: getnonce.
mongo_cr_getnonce ==
    /\ pc = "_authenticate_mongo_cr"
    /\ LET source == credentials.source
           cmd == [getnonce |-> 1]
       IN  \/ \E e \in ChannelErrors :
                CmdRaises(source, cmd, e) /\ Finish(e)
           \/ \E reply \in NextReplies :
                /\ CmdReturns(source, cmd, reply)
                /\ pc' = "mongo_cr_authenticate"
                /\ UNCHANGED outcome
    /\ UNCHANGED <<parked, args, HAVE_KERBEROS, credentials, ctx, contexts,
                   result, payload, iter, exc>>

\* Lines 221-229: the key from the nonce, then authenticate.
mongo_cr_authenticate ==
    /\ pc = "mongo_cr_authenticate"
    /\ LET source == credentials.source
           username == credentials.username
           password == credentials.password
           nonce == response.nonce
           invalid == _password_digest_error(username, password)
           query == [authenticate |-> 1, user |-> username, nonce |-> nonce,
                     key |-> _auth_key(nonce, username, password)]
       IN  IF invalid # NoExc
           THEN Finish(invalid) /\ UNCHANGED <<trace, response, idChanges>>
           ELSE \/ \E e \in ChannelErrors :
                     CmdRaises(source, query, e) /\ Finish(e)
                \/ \E reply \in NextReplies :
                     CmdReturns(source, query, reply) /\ Finish(Returned)
    /\ UNCHANGED <<parked, args, HAVE_KERBEROS, credentials, ctx, contexts,
                   result, payload, iter, exc>>

_authenticate_mongo_cr ==
    \/ mongo_cr_getnonce
    \/ mongo_cr_authenticate

Next ==
    \/ Build
    \/ authenticate
    \/ _authenticate_gssapi
    \/ _authenticate_plain
    \/ _authenticate_cram_md5
    \/ _authenticate_x509
    \/ _authenticate_mongo_cr

Spec == Init /\ [][Next]_vars

\* The code is sequential: while authenticate has not returned or raised,
\* its next statement runs, and each collaborator call answers.
FairSpec == Spec /\ WF_vars(Next)

---------------------------------------------------------------------------
(* Two connections authenticated with one credential *)

\* The locals of the run in hand.
Locals ==
    [pc |-> pc, ctx |-> ctx, result |-> result, payload |-> payload,
     response |-> response, iter |-> iter, exc |-> exc,
     idChanges |-> idChanges, outcome |-> outcome, trace |-> trace]

\* The scheduler leaves the run in hand between two calls and takes up the
\* run on the other connection; the caller built the credentials once and
\* hands the same tuple to both.  All that the runs have in common is the
\* module (HAVE_KERBEROS), the credentials and the kerberos module.
Switch ==
    /\ pc # "build"
    /\ parked' = Locals
    /\ pc' = parked.pc
    /\ ctx' = parked.ctx
    /\ result' = parked.result
    /\ payload' = parked.payload
    /\ response' = parked.response
    /\ iter' = parked.iter
    /\ exc' = parked.exc
    /\ idChanges' = parked.idChanges
    /\ outcome' = parked.outcome
    /\ trace' = parked.trace
    /\ UNCHANGED <<args, HAVE_KERBEROS, credentials, contexts>>

\* The calls the two runs make between them.
MaxCalls == 16

WithinMaxCalls == Len(trace) + Len(parked.trace) < MaxCalls

ConcNext ==
    \/ WithinMaxCalls /\ Next
    \/ Switch

ConcSpec == Init /\ [][ConcNext]_vars


---------------------------------------------------------------------------
(* Reading the trace *)

Done == pc = "done"

\* Positions of the calls of `op` in the trace.
OpIdx(op) == {i \in DOMAIN trace : trace[i].op = op}

\* Positions of the command exchanges, and of those sending `name`.
CmdIdx == OpIdx("cmd_func")
CmdNamedIdx(name) == {i \in CmdIdx : name \in DOMAIN trace[i].arg.cmd}

\* Positions of the calls that raised.
RaisedIdx == {i \in DOMAIN trace : trace[i].raised}

EngineIdx == {i \in DOMAIN trace : trace[i].op \in EngineOps}

Smallest(S) == CHOOSE x \in S : \A y \in S : x <= y
Largest(S) == CHOOSE x \in S : \A y \in S : x >= y

\* The steps of the negotiate loop: every step call but the first one.
StepIdx == OpIdx("authGSSClientStep")
LoopStepIdx == IF StepIdx = {} THEN {} ELSE StepIdx \ {Smallest(StepIdx)}

\* The k of the k-th loop step, for its position i in the trace.
LoopRank(i) == Cardinality({j \in LoopStepIdx : j <= i})

\* Loop steps that reported completion.
CompleteStepIdx ==
    {i \in LoopStepIdx :
        ~trace[i].raised /\ trace[i].res = AUTH_GSS_COMPLETE}

\* The error of the else clause of the for loop.
BoundExceeded == OperationFailure("Kerberos authentication failed to complete.")

---------------------------------------------------------------------------
(* Claims *)

\* C1: in every terminated GSSAPI run in which authGSSClientInit returned a
\* context, authGSSClientClean has been called on it, on every exit path.
C1_CleanupOnEveryExit ==
    (Done /\ \E i \in OpIdx("authGSSClientInit") : ~trace[i].raised)
        => OpIdx("authGSSClientClean") # {}

\* C2: with mechanism GSSAPI and no kerberos module, authenticate raises
\* ConfigurationError, no command is sent, no engine call is made and the
\* GSSAPI authenticator is never entered.
C2_NoCapabilityFailsFast ==
    (credentials.mechanism = "GSSAPI" /\ ~HAVE_KERBEROS)
        => /\ pc \in {"authenticate", "done"}
           /\ trace = <<>>
           /\ Done => outcome.type = "ConfigurationError"

C2_Witness ==
    /\ Done
    /\ credentials.mechanism = "GSSAPI"
    /\ ~HAVE_KERBEROS
    /\ outcome.type = "ConfigurationError"

\* C3: every GSSAPI run ends (returns or raises) whatever the engine and the
\* server answer, and no run sends more than 12 commands: one saslStart and
\* at most 11 saslContinue.
C3_Terminates ==
    /\ [](credentials.mechanism = "GSSAPI"
            => /\ Cardinality(CmdIdx) <= 12
               /\ Cardinality(CmdNamedIdx("saslStart")) <= 1
               /\ Cardinality(CmdNamedIdx("saslContinue")) <= 11)
    /\ (pc = "_authenticate_gssapi") ~> Done

\* A run whose engine never reports completion has ended, after 11 commands.
C3_Witness ==
    /\ Done
    /\ credentials.mechanism = "GSSAPI"
    /\ CompleteStepIdx = {}
    /\ Cardinality(CmdIdx) = 11

\* The longest run: completion at the tenth loop step, 12 commands.
C3_WitnessLongest ==
    /\ Done
    /\ Cardinality(CmdIdx) = 12
    /\ outcome = Returned

\* The first 10 loop steps all returned "continue".
NoneOfTenCompletes ==
    /\ Cardinality(LoopStepIdx) >= 10
    /\ \A i \in LoopStepIdx :
         LoopRank(i) <= 10 =>
            ~trace[i].raised /\ trace[i].res = AUTH_GSS_CONTINUE

\* C4: if none of the first 10 loop steps reports completion, there is no
\* eleventh loop step and no Finalize phase (no unwrap, no wrap, no
\* saslContinue beyond the 10 of the loop); and if moreover no call before the
\* cleanup raised, the run fails with OperationFailure after exactly 10
\* iterations.
C4_BoundExceededIsFatal ==
    NoneOfTenCompletes
        => /\ Cardinality(LoopStepIdx) = 10
           /\ OpIdx("authGSSClientUnwrap") = {}
           /\ OpIdx("authGSSClientWrap") = {}
           /\ Cardinality(CmdNamedIdx("saslContinue")) <= 10
           /\ (Done /\ RaisedIdx \subseteq OpIdx("authGSSClientClean"))
                 => /\ outcome.type = "OperationFailure"
                    /\ iter = 10
                    /\ Cardinality(CmdNamedIdx("saslContinue")) = 10

C4_Witness ==
    /\ Done
    /\ NoneOfTenCompletes
    /\ RaisedIdx = {}
    /\ outcome = BoundExceeded
    /\ iter = 10

\* The k-th loop step, at position i, is the first to report completion and
\* no call before it raised.
FirstCompletionAt(i) ==
    /\ i \in CompleteStepIdx
    /\ \A j \in 1..(i - 1) : ~trace[j].raised

\* What C5 says of the run once the loop step at position i has completed:
\* no further loop step, as many saslContinue sent in the loop as loop steps,
\* no bound-exceeded failure, and Finalize (the unwrap call) is reached.
StopsAndFinalizes(i) ==
    /\ Largest(LoopStepIdx) = i
    /\ OpIdx("authGSSClientUnwrap") # {}
    /\ Cardinality({j \in CmdNamedIdx("saslContinue") :
                        j < Smallest(OpIdx("authGSSClientUnwrap"))})
         = LoopRank(i)
    /\ iter = LoopRank(i)
    /\ outcome # BoundExceeded

\* C5 as stated: if the k-th loop step is the first to report completion,
\* with no step error and no command error before it, the loop stops after k
\* iterations and k saslContinue commands, and the run proceeds to Finalize.
C5_AsStated ==
    Done => \A i \in LoopStepIdx : FirstCompletionAt(i) => StopsAndFinalizes(i)

\* C5, amended: the same, provided also the two calls that end the k-th
\* iteration (authGSSClientResponse and the saslContinue exchange, at
\* positions i+1 and i+2 of the trace) do not raise.
C5_CompletionEndsLoop ==
    Done => \A i \in LoopStepIdx :
                (FirstCompletionAt(i) /\ RaisedIdx \cap {i + 1, i + 2} = {})
                    => StopsAndFinalizes(i)

\* Completion at the tenth loop step: the run goes on to Finalize.
C5_Witness ==
    /\ Done
    /\ \E i \in LoopStepIdx :
         /\ FirstCompletionAt(i)
         /\ LoopRank(i) = 10
         /\ RaisedIdx = {}
    /\ outcome = Returned

\* C6: once a command exchange raised, no further command is sent in the run
\* and the error that reaches the caller is the one the channel raised.
C6_ChannelErrorPropagates ==
    \A i \in CmdIdx :
        trace[i].raised
            => /\ \A j \in CmdIdx : j <= i
               /\ Done => outcome = trace[i].res

\* C7: an error raised by an engine call never reaches the caller as
\* KrbError: the caller observes OperationFailure with the message of the
\* engine's error (of the last one, when cleanup raises too).
C7_EngineErrorsTranslated ==
    Done => /\ outcome.type # "KrbError"
            /\ LET raisedByEngine == RaisedIdx \cap EngineIdx
               IN  raisedByEngine # {}
                     => outcome = OperationFailure(
                                     trace[Largest(raisedByEngine)].res.msg)

C7_Witness ==
    /\ Done
    /\ RaisedIdx \cap OpIdx("authGSSClientUnwrap") # {}
    /\ outcome = OperationFailure("authGSSClientUnwrap")

\* C8: whatever source, username, password and properties the builder was
\* given, for GSSAPI the credential it returns has source "$external", no
\* password and the service name given as gssapiservicename or else
\* "mongodb"; for MONGODB-X509 it has source "$external", no password and no
\* properties.
C8_ExternalMechanismsNormalized ==
    pc = "authenticate"
        => /\ args.mech = "GSSAPI"
                => /\ credentials.source = "$external"
                   /\ credentials.password = None
                   /\ Len(credentials.mechanism_properties) = 1
                   /\ credentials.mechanism_properties[1].service_name
                        = IF "gssapiservicename" \in DOMAIN args.extra
                          THEN args.extra["gssapiservicename"]
                          ELSE "mongodb"
           /\ args.mech = "MONGODB-X509"
                => /\ credentials.source = "$external"
                   /\ credentials.password = None
                   /\ credentials.mechanism_properties = NoDict

\* A GSSAPI credential built from another source, a password and a service.
C8_Witness ==
    /\ pc = "authenticate"
    /\ args.mech = "GSSAPI"
    /\ args.source = "admin"
    /\ args.passwd = "pencil"
    /\ "gssapiservicename" \in DOMAIN args.extra
    /\ credentials.source = "$external"
    /\ credentials.mechanism_properties[1].service_name = "svc"

\* C9: every credential the builder returns has a password if and only if
\* its mechanism is PLAIN, CRAM-MD5 or MONGODB-CR.
C9_PasswordIffSharedSecret ==
    pc # "build"
        => (credentials.password # None
              <=> credentials.mechanism \in {"PLAIN", "CRAM-MD5", "MONGODB-CR"})

\* The positions of the code that belong to the authenticator of a mechanism.
PositionsOf(mechanism) ==
    CASE mechanism = "GSSAPI" ->
            {"_authenticate_gssapi", "gss_first_step", "gss_start_response",
             "gss_start", "gss_loop_step", "gss_loop_response", "gss_loop_cmd",
             "gss_unwrap", "gss_wrap_response", "gss_wrap",
             "gss_final_response", "gss_final_cmd", "gss_finally"}
      [] mechanism = "PLAIN" -> {"_authenticate_plain"}
      [] mechanism = "CRAM-MD5" ->
            {"_authenticate_cram_md5", "cram_md5_continue"}
      [] mechanism = "MONGODB-X509" -> {"_authenticate_x509"}
      [] mechanism = "MONGODB-CR" ->
            {"_authenticate_mongo_cr", "mongo_cr_authenticate"}
      [] OTHER -> {}

\* C10: the mechanism of every credential the builder returns is one of the
\* five, authenticate runs the authenticator of that mechanism and never
\* fails for want of an authenticator.
C10_LookupAlwaysFinds ==
    /\ pc \notin {"build", "authenticate", "done"}
         => pc \in PositionsOf(credentials.mechanism)
    /\ Done
         => /\ credentials.mechanism \in
                 {"GSSAPI", "MONGODB-CR", "MONGODB-X509", "PLAIN", "CRAM-MD5"}
            /\ outcome # NoneNotCallable

\* The command sent by the i-th call of the run, and the database it went to.
SentCmd(i) == trace[i].arg.cmd
SentDb(i) == trace[i].arg.db

\* C11: a PLAIN run sends exactly one command, saslStart with mechanism PLAIN
\* and autoAuthorize to the credential's source, whose payload is NUL,
\* username, NUL, password; it sends no saslContinue and it succeeds whenever
\* that exchange does not raise.
C11_PlainSendsOneSaslStart ==
    credentials.mechanism = "PLAIN"
        => /\ Len(trace) <= 1
           /\ \A i \in DOMAIN trace :
                /\ trace[i].op = "cmd_func"
                /\ SentDb(i) = credentials.source
                /\ SentCmd(i) =
                     [saslStart |-> 1, mechanism |-> "PLAIN",
                      payload |-> Binary(NUL \o credentials.username
                                         \o NUL \o credentials.password),
                      autoAuthorize |-> 1]
           /\ CmdNamedIdx("saslContinue") = {}
           /\ Done => /\ Len(trace) = 1
                      /\ ~trace[1].raised => outcome = Returned

\* C12: a MONGODB-CR run sends getnonce to the credential's source and then
\* authenticate to the same database with the username, the nonce of the
\* getnonce reply and the key MD5(nonce + username + MD5(username ":mongo:"
\* password)); it succeeds only when both exchanges were answered.
C12_MongoCrSendsNonceThenKey ==
    credentials.mechanism = "MONGODB-CR"
        => LET username == credentials.username
               password == credentials.password
           IN  /\ Len(trace) <= 2
               /\ \A i \in DOMAIN trace :
                    trace[i].op = "cmd_func" /\ SentDb(i) = credentials.source
               /\ Len(trace) >= 1 => SentCmd(1) = [getnonce |-> 1]
               /\ Len(trace) = 2
                    => /\ ~trace[1].raised
                       /\ SentCmd(2) =
                            [authenticate |-> 1,
                             user |-> username,
                             nonce |-> trace[1].res.nonce,
                             key |-> MD5(<<trace[1].res.nonce, username,
                                           MD5(username \o ":mongo:"
                                               \o password)>>)]
               /\ (Done /\ outcome = Returned)
                    => Len(trace) = 2 /\ ~trace[2].raised

\* A MONGODB-CR run that succeeded on the second of the two nonces.
C12_Witness ==
    /\ Done
    /\ credentials.mechanism = "MONGODB-CR"
    /\ outcome = Returned
    /\ Len(trace) = 2
    /\ trace[1].res.nonce = "def456"
    /\ "key" \in DOMAIN SentCmd(2)

\* C13: a CRAM-MD5 run sends saslStart with an empty payload and then
\* saslContinue with the conversation id of the saslStart reply and the
\* payload username, space, HMAC-MD5 of that reply's challenge keyed by
\* MD5(username ":mongo:" password); it succeeds only when both exchanges
\* were answered.
C13_CramMd5AnswersChallenge ==
    credentials.mechanism = "CRAM-MD5"
        => LET username == credentials.username
               password == credentials.password
           IN  /\ Len(trace) <= 2
               /\ \A i \in DOMAIN trace :
                    trace[i].op = "cmd_func" /\ SentDb(i) = credentials.source
               /\ Len(trace) >= 1
                    => SentCmd(1) =
                         [saslStart |-> 1, mechanism |-> "CRAM-MD5",
                          payload |-> Binary(""), autoAuthorize |-> 1]
               /\ Len(trace) = 2
                    => /\ ~trace[1].raised
                       /\ SentCmd(2) =
                            [saslContinue |-> 1,
                             conversationId |-> trace[1].res.conversationId,
                             payload |->
                               Binary(<<username, " ",
                                        HMAC_MD5(MD5(username \o ":mongo:"
                                                     \o password),
                                                 trace[1].res.payload)>>)]
               /\ (Done /\ outcome = Returned)
                    => Len(trace) = 2 /\ ~trace[2].raised

\* A CRAM-MD5 run that succeeded on the second of the two challenges.
C13_Witness ==
    /\ Done
    /\ credentials.mechanism = "CRAM-MD5"
    /\ outcome = Returned
    /\ Len(trace) = 2
    /\ trace[1].res = ReplyDocument(2)
    /\ SentCmd(2).conversationId = 2

\* The i-th call of the run returned (did not raise) the value r.
ReturnedValue(i, r) ==
    i \in DOMAIN trace /\ ~trace[i].raised /\ trace[i].res = r

\* The run began with an init that reported complete and a first step on the
\* empty input that reported continue.
InitAndFirstStepAccepted ==
    /\ Len(trace) >= 2
    /\ trace[1].op = "authGSSClientInit"
    /\ ReturnedValue(1, AUTH_GSS_COMPLETE)
    /\ trace[2].op = "authGSSClientStep"
    /\ trace[2].arg = ""
    /\ ReturnedValue(2, AUTH_GSS_CONTINUE)

\* Init returned something other than complete, or the first step returned
\* something other than continue.
InitOrFirstStepRejected ==
    \/ /\ Len(trace) >= 1
       /\ trace[1].op = "authGSSClientInit"
       /\ \E r \in {AUTH_GSS_CONTINUE, AUTH_GSS_ERROR} : ReturnedValue(1, r)
    \/ /\ Len(trace) >= 2
       /\ trace[2].op = "authGSSClientStep"
       /\ \E r \in {AUTH_GSS_COMPLETE, AUTH_GSS_ERROR} : ReturnedValue(2, r)

\* C16: a GSSAPI run sends saslStart only after init reported complete and
\* the first step, on the empty input, reported continue; any other result
\* of either ends the run with OperationFailure and no command sent.
C16_SaslStartAfterInitAndFirstStep ==
    credentials.mechanism = "GSSAPI"
        => /\ CmdIdx # {} => InitAndFirstStepAccepted
           /\ InitOrFirstStepRejected
                => /\ CmdIdx = {}
                   /\ Done => outcome.type = "OperationFailure"

\* A run ended by a first step that reported complete at once.
C16_Witness ==
    /\ Done
    /\ credentials.mechanism = "GSSAPI"
    /\ Len(trace) >= 2
    /\ trace[2].op = "authGSSClientStep"
    /\ ReturnedValue(2, AUTH_GSS_COMPLETE)
    /\ outcome =
         OperationFailure("Unknown kerberos failure in step function.")

\* Positions of the unwrap and wrap calls of Finalize, and of the commands
\* sent after the unwrap call.
UnwrapIdx == OpIdx("authGSSClientUnwrap")
WrapIdx == OpIdx("authGSSClientWrap")
FinalCmdIdx == {c \in CmdIdx : \E u \in UnwrapIdx : u < c}

\* A call of the engine that raised or returned something other than 1.
EngineCallFailed(i) == trace[i].raised \/ trace[i].res # AUTH_GSS_COMPLETE

\* C17: Finalize unwraps the last reply's payload, then wraps the username
\* onto the unwrapped data, then sends the last saslContinue, in that order;
\* a failed unwrap or wrap ends the run with OperationFailure and nothing
\* more sent; the run succeeds only if the last saslContinue was answered.
C17_FinalizeOrder ==
    credentials.mechanism = "GSSAPI"
        => /\ Cardinality(UnwrapIdx) <= 1
           /\ Cardinality(WrapIdx) <= 1
           /\ Cardinality(FinalCmdIdx) <= 1
           /\ \A w \in WrapIdx :
                \E u \in UnwrapIdx : u < w /\ ~EngineCallFailed(u)
           /\ \A c \in FinalCmdIdx :
                /\ "saslContinue" \in DOMAIN SentCmd(c)
                /\ \E w \in WrapIdx : w < c /\ ~EngineCallFailed(w)
           /\ \A i \in UnwrapIdx \cup WrapIdx :
                EngineCallFailed(i)
                    => /\ \A c \in CmdIdx : c < i
                       /\ Done => outcome.type = "OperationFailure"
           /\ (Done /\ outcome = Returned)
                => \E c \in FinalCmdIdx : ~trace[c].raised

\* A run that went through unwrap, wrap and an answered last saslContinue.
C17_Witness ==
    /\ Done
    /\ credentials.mechanism = "GSSAPI"
    /\ outcome = Returned
    /\ \E u \in UnwrapIdx, w \in WrapIdx, c \in FinalCmdIdx :
         u < w /\ w < c /\ ~trace[c].raised

\* C18: every saslContinue of a GSSAPI run, the last one included, carries
\* the conversation id of the saslStart reply, whatever conversation id the
\* later replies contain.
C18_ConversationIdOfSaslStart ==
    credentials.mechanism = "GSSAPI"
        => \A s \in CmdNamedIdx("saslStart") :
             \A c \in CmdNamedIdx("saslContinue") :
                SentCmd(c).conversationId = trace[s].res.conversationId

\* The password of the credential is empty or is not text.
PasswordRefused ==
    ~IsString(credentials.password) \/ credentials.password = ""

\* The two errors of the validation in _password_digest.
ValidationErrors == {"TypeError", "ValueError"}

\* C19: with a password that is empty or not text no command carrying a key
\* or a keyed digest is sent: a CRAM-MD5 run fails on the validation with no
\* command sent, a MONGODB-CR run sends getnonce and, once it is answered,
\* fails on the validation without sending authenticate.
C19_RefusedPasswordSendsNoKey ==
    PasswordRefused
        => /\ credentials.mechanism = "CRAM-MD5"
                => /\ trace = <<>>
                   /\ Done => outcome.type \in ValidationErrors
           /\ credentials.mechanism = "MONGODB-CR"
                => /\ Len(trace) <= 1
                   /\ \A i \in DOMAIN trace :
                        /\ trace[i].op = "cmd_func"
                        /\ SentCmd(i) = [getnonce |-> 1]
                   /\ Done
                        => /\ Len(trace) = 1
                           /\ ~trace[1].raised
                                => outcome.type \in ValidationErrors

\* A MONGODB-CR run with the empty password, ended by the validation after
\* the nonce was received.
C19_Witness ==
    /\ Done
    /\ credentials.mechanism = "MONGODB-CR"
    /\ credentials.password = ""
    /\ Len(trace) = 1
    /\ ~trace[1].raised
    /\ outcome.type = "ValueError"

\* Positions of the cleanup calls.
CleanIdx == OpIdx("authGSSClientClean")

\* C20: a GSSAPI run calls cleanup at most once, and no engine call and no
\* command exchange of the run follows it.
C20_CleanupOnceAndLast ==
    credentials.mechanism = "GSSAPI"
        => /\ Cardinality(CleanIdx) <= 1
           /\ \A i \in CleanIdx : i = Len(trace)
           /\ CleanIdx # {} => contexts[ctx] = "cleaned" /\ Done

\* A successful run: cleanup is the thirteenth and last call, after the last
\* saslContinue.
C20_Witness ==
    /\ Done
    /\ credentials.mechanism = "GSSAPI"
    /\ outcome = Returned
    /\ CleanIdx = {Len(trace)}
    /\ Len(trace) > 1
    /\ trace[Len(trace) - 1].op = "cmd_func"

\* What a call asked and what it was answered; the handle of the context is
\* the kerberos module's choice and is left out of what the run asked.
SameCall(a, b) == a.op = b.op /\ a.arg = b.arg
SameAnswer(a, b) == a.raised = b.raised /\ a.res = b.res

\* The first n calls of the traces s and t asked the same and were answered
\* the same.
AgreeUpTo(s, t, n) ==
    \A k \in 1..n : SameCall(s[k], t[k]) /\ SameAnswer(s[k], t[k])

\* Given the same answers, run q does what run r does: it makes the same
\* next call, it ends where r ends, and it ends with the same outcome.
DoesTheSame(r, q) ==
    \A n \in 0..Len(r.trace) :
        (n <= Len(q.trace) /\ AgreeUpTo(r.trace, q.trace, n))
            => /\ (n < Len(r.trace) /\ n < Len(q.trace))
                    => SameCall(r.trace[n + 1], q.trace[n + 1])
               /\ (n = Len(r.trace) /\ r.pc = "done")
                    => /\ Len(q.trace) = n
                       /\ q.pc = "done" => q.outcome = r.outcome

\* A run that made calls made its context with the first of them.
MadeContext(t) ==
    /\ Len(t) >= 1
    /\ t[1].op = "authGSSClientInit"
    /\ ~t[1].raised

\* Every call of the run on a context is on the context its own init made.
UsesOwnContext(t) ==
    \A i \in DOMAIN t :
        (t[i].op \in EngineOps /\ i > 1)
            => MadeContext(t) /\ t[i].ctx = t[1].ctx

\* A run that has ended has cleaned the context its init made.
ReleasedOwnContext(r) ==
    (r.pc = "done" /\ MadeContext(r.trace))
        => /\ \E i \in DOMAIN r.trace :
                /\ r.trace[i].op = "authGSSClientClean"
                /\ r.trace[i].ctx = r.trace[1].ctx
           /\ contexts[r.trace[1].ctx] = "cleaned"

\* Each of two interleaved runs calls the kerberos module on its own context
\* only, and the two contexts are two.
ContextsNotShared ==
    /\ UsesOwnContext(trace)
    /\ UsesOwnContext(parked.trace)
    /\ (MadeContext(trace) /\ MadeContext(parked.trace))
            => trace[1].ctx # parked.trace[1].ctx

\* C14: of two runs with one credential interleaved at every call, each uses
\* its own security context only, each releases the context it made, and
\* each makes the calls and has the outcome that the same answers give a run
\* on its own.
C14_InterleavedRunsIndependent ==
    /\ ContextsNotShared
    /\ ReleasedOwnContext(Locals)
    /\ ReleasedOwnContext(parked)
    /\ DoesTheSame(Locals, parked)
    /\ DoesTheSame(parked, Locals)

\* After the builder has returned nothing assigns to the credentials.
CredentialsFrame == pc # "build" => credentials' = credentials

\* C15: no step of authenticate or of an authenticator changes a field of
\* the credentials, in a run that succeeds or in one that fails, and a
\* second run with the same credentials and the same answers makes the same
\* calls as the first.
C15_CredentialsNotMutated ==
    /\ [][CredentialsFrame]_vars
    /\ [](DoesTheSame(parked, Locals) /\ DoesTheSame(Locals, parked))

\* Two PLAIN runs with one credential, one after the other, both answered:
\* the second sent what the first sent.
C15_Witness ==
    /\ Done
    /\ parked.pc = "done"
    /\ credentials.mechanism = "PLAIN"
    /\ outcome = Returned
    /\ parked.outcome = Returned
    /\ Len(trace) = 1
    /\ trace = parked.trace
    /\ credentials =
         _build_credentials_tuple("PLAIN", "admin", "user", "pencil",
                                  EmptyDict)

=============================================================================
